---------------------------- MODULE Spec2Model ----------------------------
(***************************************************************************)
(* A model of backend/cmd/slots-gpt/main.go: the startup sequence of main  *)
(* and the handler registered for /api/send-prompt.                        *)
(*                                                                         *)
(* Request and response bodies are sequences of lexical tokens, so that    *)
(* json.Decoder.Decode (reads the FIRST JSON value of the stream, then     *)
(* stores it into a PromptRequest), json.Encoder.Encode and http.Error     *)
(* are computed the way the library computes them and not assumed.         *)
(*                                                                         *)
(* Not modelled: the routing of other paths by the ServeMux (every request *)
(* of the model is one for the pattern), the escaping of the characters of *)
(* a string by the encoder, and the order of the lines of the log.         *)
(***************************************************************************)
EXTENDS Naturals, Sequences, FiniteSets

(***************************************************************************)
(* Bounds of the model.                                                    *)
(***************************************************************************)
\* Number of requests the server handles, each in its own goroutine.
NReq == 2

Requests == 1 .. NReq

(***************************************************************************)
(* Tokens.                                                                 *)
(***************************************************************************)
Tok(t, v) == [t |-> t, v |-> v]

LBrace == Tok("{", "")
RBrace == Tok("}", "")
LBrack == Tok("[", "")
RBrack == Tok("]", "")
Colon  == Tok(":", "")
Comma  == Tok(",", "")
Null   == Tok("null", "")
NL     == Tok("\n", "")
Str(s)  == Tok("str", s)
Num(n)  == Tok("num", n)
Bad(x)  == Tok("bad", x)
Text(x) == Tok("text", x)

IsScalar(tok) == tok.t \in {"str", "num", "null"}

(***************************************************************************)
(* encoding/json: the scanner.  ScanValue(toks, i) is the index right      *)
(* after the JSON value that starts at toks[i], or 0 when the input ends   *)
(* or is not JSON before the value is complete.                            *)
(***************************************************************************)
RECURSIVE ScanValue(_, _), ScanMembers(_, _), ScanElements(_, _)

ScanValue(toks, i) ==
    IF i > Len(toks) THEN 0
    ELSE IF IsScalar(toks[i]) THEN i + 1
    ELSE IF toks[i] = LBrace THEN
        IF i + 1 <= Len(toks) /\ toks[i + 1] = RBrace THEN i + 2
        ELSE ScanMembers(toks, i + 1)
    ELSE IF toks[i] = LBrack THEN
        IF i + 1 <= Len(toks) /\ toks[i + 1] = RBrack THEN i + 2
        ELSE ScanElements(toks, i + 1)
    ELSE 0

\* i is at a key; the members run up to and including the closing brace.
ScanMembers(toks, i) ==
    IF i + 1 > Len(toks) \/ toks[i].t # "str" \/ toks[i + 1] # Colon THEN 0
    ELSE LET j == ScanValue(toks, i + 2) IN
         IF j = 0 \/ j > Len(toks) THEN 0
         ELSE IF toks[j] = RBrace THEN j + 1
         ELSE IF toks[j] = Comma THEN ScanMembers(toks, j + 1)
         ELSE 0

\* i is at an element; the elements run up to and including the bracket.
ScanElements(toks, i) ==
    LET j == ScanValue(toks, i) IN
    IF j = 0 \/ j > Len(toks) THEN 0
    ELSE IF toks[j] = RBrack THEN j + 1
    ELSE IF toks[j] = Comma THEN ScanElements(toks, j + 1)
    ELSE 0

(***************************************************************************)
(* type PromptRequest and the decoder that fills it.                       *)
(***************************************************************************)
PromptRequest(p, m) == [Prompt |-> p, Model |-> m]

ZeroRequest == PromptRequest("", "")

NoErr == "<nil>"

\* The struct field a JSON key is stored into: the tag itself, or a key
\* that equals the tag under case folding; "" when there is none.
FieldFor(key) ==
    CASE key \in {"prompt", "Prompt", "PROMPT"} -> "Prompt"
      [] key \in {"model", "Model", "MODEL"}    -> "Model"
      [] OTHER                                  -> ""

SetField(req, f, s) ==
    IF f = "Prompt" THEN [req EXCEPT !.Prompt = s]
    ELSE IF f = "Model" THEN [req EXCEPT !.Model = s]
    ELSE req

\* decodeState.object over a value the scanner has accepted: i is at a key.
\* A string is stored, null leaves the field alone, any other value is an
\* UnmarshalTypeError: the first one is kept and decoding goes on.
RECURSIVE UnmarshalMembers(_, _, _, _)
UnmarshalMembers(toks, i, req, err) ==
    LET f    == FieldFor(toks[i].v)
        v    == toks[i + 2]
        j    == ScanValue(toks, i + 2)
        req2 == IF f # "" /\ v.t = "str" THEN SetField(req, f, v.v) ELSE req
        err2 == IF f # "" /\ v.t \notin {"str", "null"} /\ err = NoErr
                THEN "UnmarshalTypeError" ELSE err
    IN  IF toks[j] = Comma THEN UnmarshalMembers(toks, j + 1, req2, err2)
        ELSE [err |-> err2, req |-> req2]

\* decodeState.unmarshal into a *PromptRequest.
Unmarshal(toks) ==
    IF toks[1] = Null THEN [err |-> NoErr, req |-> ZeroRequest]
    ELSE IF toks[1] # LBrace
        THEN [err |-> "UnmarshalTypeError", req |-> ZeroRequest]
    ELSE IF toks[2] = RBrace THEN [err |-> NoErr, req |-> ZeroRequest]
    ELSE UnmarshalMembers(toks, 2, ZeroRequest, NoErr)

\* json.NewDecoder(r.Body).Decode(&req): the first value of the stream is
\* read and stored; what follows it in the body is never looked at.
Decode(body) ==
    IF body = <<>> THEN [err |-> "EOF", req |-> ZeroRequest]
    ELSE IF ScanValue(body, 1) = 0
        THEN [err |-> "SyntaxError", req |-> ZeroRequest]
    ELSE Unmarshal(body)


(***************************************************************************)
(* net/http and the AWS SDK, as far as the handler uses them.              *)
(***************************************************************************)
MethodPost == "POST"

StatusOK == 200
StatusBadRequest == 400
StatusMethodNotAllowed == 405
StatusInternalServerError == 500

PlainText == "text/plain; charset=utf-8"

NoResp == [status |-> 0, contentType |-> "", body |-> <<>>]

\* http.Error(w, msg, code): a plain-text content type, the status, and the
\* message printed with Fprintln.
HttpError(msg, code) ==
    [status |-> code, contentType |-> PlainText, body |-> <<Text(msg), NL>>]

\* The first Write on a ResponseWriter whose header was not written: status
\* 200, and the Content-Type header as set, else the sniffed type (text/plain
\* for JSON text).
WriteBody(contentType, body) ==
    [status      |-> StatusOK,
     contentType |-> IF contentType = "" THEN PlainText ELSE contentType,
     body        |-> body]

\* A nil *string.
NilString == "<nil pointer>"

\* aws.StringValue
StringValue(p) == IF p = NilString THEN "" ELSE p

\* type PromptResponse
PromptResponse(s) == [Response |-> s]

\* json.NewEncoder(w).Encode(response): the object, then a newline.
Encode(response) ==
    <<LBrace, Str("response"), Colon, Str(response.Response), RBrace, NL>>

\* The input built as a bug would build it: the two fields exchanged.
InvokeModelInputSwapped(req) ==
    [InputText |-> req.Model, ModelId |-> req.Prompt]

\* &bedrock.InvokeModelInput{InputText: ..., ModelId: ...}
InvokeModelInput(req) == [InputText |-> req.Prompt, ModelId |-> req.Model]

NoParams == [InputText |-> "", ModelId |-> ""]

NoResult == [err |-> NoErr, out |-> NilString]

\* What svc.InvokeModel can return: an output (whose OutputText may be nil)
\* and no error, or an error.
Outcomes ==
    {[err |-> NoErr, out |-> t] : t \in {"Hi there", NilString}}
    \cup {[err |-> e, out |-> NilString] :
            e \in {"AccessDeniedException", "ThrottlingException"}}

(***************************************************************************)
(* The request bodies the model sends.                                     *)
(***************************************************************************)
Member(k, v) == <<Str(k), Colon, v>>

Obj1(m) == <<LBrace>> \o m \o <<RBrace>>

Obj2(m1, m2) == <<LBrace>> \o m1 \o <<Comma>> \o m2 \o <<RBrace>>

HelloBody ==
    Obj2(Member("prompt", Str("Hello, Bedrock!")),
         Member("model", Str("example-model-id")))

Bodies ==
    { HelloBody,
      \* a key that matches the tag only under case folding
      Obj2(Member("model", Str("m2")), Member("PROMPT", Str("Hi"))),
      \* a JSON value followed by something that is not JSON
      HelloBody \o <<Bad("trailing")>>,
      Obj2(Member("prompt", Str("")), Member("model", Str("example-model-id"))),
      Obj1(Member("prompt", Str("Hello, Bedrock!"))),
      Obj2(Member("prompt", Num("5")), Member("model", Str(""))),
      Obj2(Member("prompt", Null), Member("model", Str("example-model-id"))),
      <<Null>>,
      <<LBrack, RBrack>>,
      <<LBrace, Str("prompt"), Colon, Str("Hello, Bedrock!")>>,
      <<Bad("hello")>>,
      <<>> }

\* The requests the model sends: every body with POST, and with the other
\* methods a body that is valid, one that is malformed and an empty one.
Inputs ==
    {[method |-> MethodPost, body |-> b] : b \in Bodies}
    \cup {[method |-> "GET", body |-> b] :
            b \in {HelloBody, <<Bad("hello")>>, <<>>}}
    \cup {[method |-> "PUT", body |-> HelloBody]}

(***************************************************************************)
(* The process environment and the .env file.                              *)
(***************************************************************************)
EnvKeys == {"AWS_REGION", "AWS_ACCESS_KEY_ID", "AWS_SECRET_ACCESS_KEY", "PORT"}

Absent == "<absent>"

Env(region, accessKey, secretKey, p) ==
    [k \in EnvKeys |->
        CASE k = "AWS_REGION"            -> region
          [] k = "AWS_ACCESS_KEY_ID"     -> accessKey
          [] k = "AWS_SECRET_ACCESS_KEY" -> secretKey
          [] OTHER                       -> p]

NoFile == [exists |-> FALSE, vars |-> Env(Absent, Absent, Absent, Absent)]

File(vars) == [exists |-> TRUE, vars |-> vars]

\* The environments the process is started in: what the process inherits,
\* and the .env file of the working directory.
Environments ==
    { [environ |-> Env(Absent, Absent, Absent, Absent), dotenv |-> NoFile],
      [environ |-> Env("us-east-1", "AKIA", "s3cr3t", "8080"), dotenv |-> NoFile],
      [environ |-> Env(Absent, Absent, Absent, Absent),
       dotenv  |-> File(Env("eu-west-1", "AKIA", "s3cr3t", "9090"))],
      [environ |-> Env("us-east-1", "", Absent, ""),
       dotenv  |-> File(Env("eu-west-1", "AKIA", "s3cr3t", "9090"))] }

\* os.Getenv: the value, "" when the variable is not set.
Getenv(env, k) == IF env[k] = Absent THEN "" ELSE env[k]

\* godotenv.Load: every variable of the file that the process does not
\* already have (set, even to "") is set from the file.
Load(env, file) ==
    [k \in EnvKeys |->
        IF env[k] = Absent /\ file.vars[k] # Absent THEN file.vars[k] ELSE env[k]]

\* The default applied as a bug would apply it: always.
DefaultPortAlways(p) == "3000"

\* if port == "" { port = "3000" }
DefaultPort(p) == IF p = "" THEN "3000" ELSE p

Unset == "<unset>"

NoClient == [built |-> FALSE, region |-> "", accessKey |-> "", secretKey |-> ""]

Line(msg, detail) == [msg |-> msg, detail |-> detail]

(***************************************************************************)
(* State.                                                                  *)
(***************************************************************************)
VARIABLES
    pc,            \* where main is
    environ,       \* the process environment
    dotenv,        \* the .env file
    awsRegion, awsAccessKey, awsSecretKey, port,    \* main's locals
    sess,          \* the AWS session
    svc,           \* the Bedrock client
    svcBuilds,     \* how many times bedrock.New has run
    registered,    \* the patterns of http.DefaultServeMux
    listenAddr,    \* the address given to ListenAndServe
    logLines,      \* what was logged (the order is not kept)
    reqs           \* the requests: one handler goroutine each

vars == <<pc, environ, dotenv, awsRegion, awsAccessKey, awsSecretKey, port,
          sess, svc, svcBuilds, registered, listenAddr, logLines, reqs>>

config == <<environ, dotenv, awsRegion, awsAccessKey, awsSecretKey, port>>

\* What outlives a request: everything the handler could share.
process == <<pc, config, sess, svc, svcBuilds, registered, listenAddr>>

IdleRequest ==
    [state |-> "idle", method |-> "", body |-> <<>>, checks |-> <<>>,
     req |-> ZeroRequest, params |-> NoParams, ncalls |-> 0, client |-> NoClient,
     result |-> NoResult, resp |-> NoResp]

Init ==
    /\ pc = "load"
    /\ \E e \in Environments : environ = e.environ /\ dotenv = e.dotenv
    /\ awsRegion = Unset /\ awsAccessKey = Unset /\ awsSecretKey = Unset
    /\ port = Unset
    /\ sess = NoClient
    /\ svc = NoClient
    /\ svcBuilds = 0
    /\ registered = {}
    /\ listenAddr = Unset
    /\ logLines = {}
    /\ reqs = [r \in Requests |-> IdleRequest]

(***************************************************************************)
(* main.                                                                   *)
(***************************************************************************)
\* godotenv.Load(): a missing file is logged and nothing else.
LoadEnv ==
    /\ pc = "load"
    /\ pc' = "getenv"
    /\ environ' = IF dotenv.exists THEN Load(environ, dotenv) ELSE environ
    /\ logLines' = IF dotenv.exists THEN logLines
                   ELSE logLines \cup {Line("No .env file found", "")}
    /\ UNCHANGED <<dotenv, awsRegion, awsAccessKey, awsSecretKey, port, sess,
                   svc, svcBuilds, registered, listenAddr, reqs>>

\* The four os.Getenv calls and the default of the port.
ReadConfig ==
    /\ pc = "getenv"
    /\ pc' = "session"
    /\ awsRegion' = Getenv(environ, "AWS_REGION")
    /\ awsAccessKey' = Getenv(environ, "AWS_ACCESS_KEY_ID")
    /\ awsSecretKey' = Getenv(environ, "AWS_SECRET_ACCESS_KEY")
    /\ port' = DefaultPort(Getenv(environ, "PORT"))
    /\ UNCHANGED <<environ, dotenv, sess, svc, svcBuilds, registered,
                   listenAddr, logLines, reqs>>

\* session.NewSession returns a session.
NewSession ==
    /\ pc = "session"
    /\ pc' = "new"
    /\ sess' = [built |-> TRUE, region |-> awsRegion,
                accessKey |-> awsAccessKey, secretKey |-> awsSecretKey]
    /\ UNCHANGED <<config, svc, svcBuilds, registered, listenAddr, logLines, reqs>>

\* A failed session that, as a bug would have it, is only logged.
SessionFailsLogged ==
    /\ pc = "session"
    /\ pc' = "handlefunc"
    /\ logLines' = logLines \cup {Line("Failed to create AWS session", "error")}
    /\ UNCHANGED <<config, sess, svc, svcBuilds, registered, listenAddr, reqs>>

\* session.NewSession returns an error: log.Fatalf ends the process.
SessionFails ==
    /\ pc = "session"
    /\ pc' = "exited"
    /\ logLines' = logLines \cup {Line("Failed to create AWS session", "error")}
    /\ UNCHANGED <<config, sess, svc, svcBuilds, registered, listenAddr, reqs>>

\* svc := bedrock.New(sess)
NewClient ==
    /\ pc = "new"
    /\ pc' = "handlefunc"
    /\ svc' = sess
    /\ svcBuilds' = svcBuilds + 1
    /\ UNCHANGED <<config, sess, registered, listenAddr, logLines, reqs>>

\* http.HandleFunc("/api/send-prompt", ...)
HandleFunc ==
    /\ pc = "handlefunc"
    /\ pc' = "listen"
    /\ registered' = registered \cup {"/api/send-prompt"}
    /\ UNCHANGED <<config, sess, svc, svcBuilds, listenAddr, logLines, reqs>>

\* log.Printf and http.ListenAndServe, which now serves until the process ends.
ListenAndServe ==
    /\ pc = "listen"
    /\ pc' = "serving"
    /\ listenAddr' = ":" \o port
    /\ logLines' = logLines \cup {Line("Server is running on port", port)}
    /\ UNCHANGED <<config, sess, svc, svcBuilds, registered, reqs>>

\* http.ListenAndServe returns at once (the address cannot be bound):
\* log.Fatal ends the process.
ListenFails ==
    /\ pc = "listen"
    /\ pc' = "exited"
    /\ listenAddr' = ":" \o port
    /\ logLines' = logLines \cup {Line("Server is running on port", port),
                                  Line("listen", "error")}
    /\ UNCHANGED <<config, sess, svc, svcBuilds, registered, reqs>>

(***************************************************************************)
(* The handler of /api/send-prompt.                                        *)
(***************************************************************************)
\* The method check as a bug would have it: every method is let through.
MethodAllowedAny(method) == TRUE

\* r.Method != http.MethodPost
MethodAllowed(method) == method = MethodPost

\* The check of the fields as a bug would have it: the model is forgotten.
FieldsPresentPromptOnly(req) == req.Prompt # ""

\* req.Prompt == "" || req.Model == ""
FieldsPresent(req) == req.Prompt # "" /\ req.Model # ""

\* The answer to a failed call as a bug would have it: the error is sent.
InvokeFailedLeaks(err) == HttpError(err, StatusInternalServerError)

\* http.Error(w, "Failed to invoke Bedrock model", 500)
InvokeFailed(err) ==
    HttpError("Failed to invoke Bedrock model", StatusInternalServerError)

\* The answer to a call that succeeded: the header, then the encoded
\* PromptResponse.
InvokeSucceeded(out) ==
    WriteBody("application/json", Encode(PromptResponse(StringValue(out))))

\* The checks in the order a bug would run them: the body is decoded before
\* the method is looked at.
ValidateDecodeFirst(method, body) ==
    LET d == Decode(body) IN
    IF d.err # NoErr THEN
        [checks |-> <<"decode">>, ok |-> FALSE, req |-> d.req,
         resp |-> HttpError("Invalid request payload", StatusBadRequest)]
    ELSE IF ~MethodAllowed(method) THEN
        [checks |-> <<"decode", "method">>, ok |-> FALSE, req |-> d.req,
         resp |-> HttpError("Invalid request method", StatusMethodNotAllowed)]
    ELSE IF ~FieldsPresent(d.req) THEN
        [checks |-> <<"decode", "method", "fields">>, ok |-> FALSE, req |-> d.req,
         resp |-> HttpError("Prompt and model are required", StatusBadRequest)]
    ELSE
        [checks |-> <<"decode", "method", "fields">>, ok |-> TRUE, req |-> d.req,
         resp |-> NoResp]

\* The handler from its first line to its first return or to the call of
\* svc.InvokeModel: the checks it ran, and either the response it wrote or
\* the input of the call.
Validate(method, body) ==
    LET d == Decode(body) IN
    IF ~MethodAllowed(method) THEN
        [checks |-> <<"method">>, ok |-> FALSE, req |-> ZeroRequest,
         resp |-> HttpError("Invalid request method", StatusMethodNotAllowed)]
    ELSE IF d.err # NoErr THEN
        [checks |-> <<"method", "decode">>, ok |-> FALSE, req |-> d.req,
         resp |-> HttpError("Invalid request payload", StatusBadRequest)]
    ELSE IF ~FieldsPresent(d.req) THEN
        [checks |-> <<"method", "decode", "fields">>, ok |-> FALSE, req |-> d.req,
         resp |-> HttpError("Prompt and model are required", StatusBadRequest)]
    ELSE
        [checks |-> <<"method", "decode", "fields">>, ok |-> TRUE, req |-> d.req,
         resp |-> NoResp]

\* The variables of one run of the handler, as a bug would have them: req
\* is one variable that all runs of the handler share.
SetRequestShared(r, new) ==
    [q \in Requests |->
        IF q = r THEN new
        ELSE IF reqs[q].state = "validated" /\ new.state = "validated"
            THEN [reqs[q] EXCEPT !.req = new.req]
        ELSE reqs[q]]

\* The variables of one run of the handler (w, r, req, params, resp, err)
\* are its own: a run writes none of another run.
SetRequest(r, new) == [reqs EXCEPT ![r] = new]

\* The server accepts a request for the pattern and starts the handler.
Receive(r, method, body) ==
    /\ pc = "serving"
    /\ "/api/send-prompt" \in registered
    /\ reqs[r].state = "idle"
    /\ reqs' = SetRequest(r, [reqs[r] EXCEPT !.state = "received",
                                              !.method = method,
                                              !.body = body])
    /\ UNCHANGED <<process, logLines>>

\* The handler runs up to its first return, or up to svc.InvokeModel(params),
\* where it blocks.
Handle(r) ==
    /\ reqs[r].state = "received"
    /\ LET v == Validate(reqs[r].method, reqs[r].body) IN
       reqs' = SetRequest(r,
           IF v.ok
           THEN [reqs[r] EXCEPT !.state = "validated",
                                !.checks = v.checks,
                                !.req = v.req,
                                !.params = InvokeModelInput(v.req),
                                !.client = svc,
                                !.ncalls = @ + 1]
           ELSE [reqs[r] EXCEPT !.state = "done",
                                !.checks = v.checks,
                                !.req = v.req,
                                !.resp = v.resp])
    /\ UNCHANGED <<process, logLines>>

\* svc.InvokeModel returns, with a bug that calls it again after an error.
InvokeReturnsRetry(r, res) ==
    /\ reqs[r].state = "validated"
    /\ IF res.err # NoErr /\ reqs[r].ncalls < 2
       THEN /\ reqs' = SetRequest(r, [reqs[r] EXCEPT !.ncalls = @ + 1])
            /\ logLines' = logLines
       ELSE /\ reqs' = SetRequest(r, [reqs[r] EXCEPT
                         !.state = "done", !.result = res,
                         !.resp = IF res.err # NoErr THEN InvokeFailed(res.err)
                                  ELSE InvokeSucceeded(res.out)])
            /\ logLines' = IF res.err # NoErr
                           THEN logLines \cup
                                {Line("Error invoking Bedrock model", res.err)}
                           ELSE logLines
    /\ UNCHANGED process

\* svc.InvokeModel returns and the handler runs to its end: an error is
\* logged and answered with 500, an output is encoded.
InvokeReturns(r, res) ==
    /\ reqs[r].state = "validated"
    /\ reqs' = SetRequest(r, [reqs[r] EXCEPT
                   !.state = "done", !.result = res,
                   !.resp = IF res.err # NoErr THEN InvokeFailed(res.err)
                            ELSE InvokeSucceeded(res.out)])
    /\ logLines' = IF res.err # NoErr
                   THEN logLines \cup {Line("Error invoking Bedrock model", res.err)}
                   ELSE logLines
    /\ UNCHANGED process

(***************************************************************************)
(* The specifications.                                                     *)
(***************************************************************************)
Next ==
    \/ LoadEnv
    \/ ReadConfig
    \/ NewSession
    \/ SessionFails
    \/ NewClient
    \/ HandleFunc
    \/ ListenAndServe
    \/ ListenFails
    \/ \E r \in Requests, in \in Inputs : Receive(r, in.method, in.body)
    \/ \E r \in Requests : Handle(r)
    \/ \E r \in Requests, res \in Outcomes : InvokeReturns(r, res)

Spec == Init /\ [][Next]_vars

\* A step of main or of a handler goroutine, or the return of a call.
Progress ==
    \/ LoadEnv \/ ReadConfig \/ NewSession \/ SessionFails
    \/ NewClient \/ HandleFunc \/ ListenAndServe \/ ListenFails
    \/ \E r \in Requests : Handle(r)
    \/ \E r \in Requests, res \in Outcomes : InvokeReturns(r, res)

\* The Go scheduler does not stop while a goroutine can run: as long as main
\* or a handler has a step to take, one of them takes a step.  That a call
\* of svc.InvokeModel returns is assumed; that requests arrive is not.
FairSpec == Spec /\ WF_vars(Progress)

(***************************************************************************)
(* Vocabulary of the properties.                                           *)
(***************************************************************************)
Done(r) == reqs[r].state = "done"

IsPost(r) == reqs[r].method = "POST"

\* The whole body is one JSON value.
ValidJSON(body) == body # <<>> /\ ScanValue(body, 1) = Len(body) + 1

\* The value of a field in a body that is JSON: "" when the body has no
\* string for it.
FieldOf(body, f) ==
    IF body[1] # LBrace \/ body[2] = RBrace THEN ""
    ELSE LET q == UnmarshalMembers(body, 2, ZeroRequest, NoErr).req IN
         IF f = "prompt" THEN q.Prompt ELSE q.Model

\* The body has the PromptRequest shape: null or an object whose prompt and
\* model, where present, are strings or null.
HasShape(body) == ValidJSON(body) /\ Unmarshal(body).err = NoErr

PlainBody(msg) == <<Text(msg), NL>>

Mentions(body, s) == \E i \in 1 .. Len(body) : body[i].v = s

(***************************************************************************)
(* C1                                                                      *)
(***************************************************************************)
\* C1: a POST whose body decodes to a non-empty prompt and a non-empty model
\* calls the client once with exactly that prompt and that model, and when
\* the call returns output text T the response is 200, application/json,
\* {"response": T}.
C1_SuccessResponse ==
    \A r \in Requests :
        LET q == reqs[r]
            d == Decode(q.body)
        IN  /\ q.state \in {"validated", "done"} /\ IsPost(r)
            /\ d.err = NoErr /\ d.req.Prompt # "" /\ d.req.Model # ""
            => /\ q.ncalls = 1
               /\ q.params.InputText = d.req.Prompt
               /\ q.params.ModelId = d.req.Model
               /\ Done(r) /\ q.result.err = NoErr =>
                    /\ q.resp.status = 200
                    /\ q.resp.contentType = "application/json"
                    /\ q.resp.body =
                         <<LBrace, Str("response"), Colon,
                           Str(IF q.result.out = NilString THEN ""
                               ELSE q.result.out),
                           RBrace, NL>>

C1_Witness ==
    \E r \in Requests :
        /\ Done(r) /\ IsPost(r) /\ reqs[r].body = HelloBody
        /\ reqs[r].params = [InputText |-> "Hello, Bedrock!",
                             ModelId |-> "example-model-id"]
        /\ reqs[r].result = [err |-> NoErr, out |-> "Hi there"]
        /\ reqs[r].resp.status = 200
        /\ reqs[r].resp.body[4] = Str("Hi there")

(***************************************************************************)
(* C2                                                                      *)
(***************************************************************************)
EmptyField(body) == FieldOf(body, "prompt") = "" \/ FieldOf(body, "model") = ""

\* C2 as claimed, for the bodies that are JSON objects: every POST whose
\* body is valid JSON with an empty or absent prompt or model is answered
\* 400 "Prompt and model are required", and the client is not called.
C2_AsClaimed ==
    \A r \in Requests :
        Done(r) /\ IsPost(r) /\ ValidJSON(reqs[r].body)
                /\ reqs[r].body[1] = LBrace /\ EmptyField(reqs[r].body)
        => /\ reqs[r].resp.status = 400
           /\ reqs[r].resp.contentType = PlainText
           /\ reqs[r].resp.body = PlainBody("Prompt and model are required")
           /\ reqs[r].ncalls = 0

\* C2, amended: every POST whose body is valid JSON with an empty or absent
\* prompt or model is answered 400 in plain text and the client is never
\* called for it; the message is "Prompt and model are required" when the
\* body has the PromptRequest shape, and "Invalid request payload" when it
\* has not (a field of another type, a value that is no object).
C2_EmptyFieldRejected ==
    \A r \in Requests :
        /\ reqs[r].state # "received" /\ IsPost(r) /\ ValidJSON(reqs[r].body)
           /\ EmptyField(reqs[r].body)
           => /\ Done(r)
              /\ reqs[r].resp.status = 400
              /\ reqs[r].resp.contentType = PlainText
              /\ reqs[r].resp.body =
                    IF HasShape(reqs[r].body)
                    THEN PlainBody("Prompt and model are required")
                    ELSE PlainBody("Invalid request payload")
              /\ reqs[r].ncalls = 0
              /\ reqs[r].params = NoParams

C2_Witness ==
    \E r \in Requests :
        /\ Done(r) /\ IsPost(r)
        /\ reqs[r].body = Obj2(Member("prompt", Str("")),
                               Member("model", Str("example-model-id")))
        /\ reqs[r].resp.status = 400
        /\ reqs[r].resp.body = PlainBody("Prompt and model are required")
        /\ reqs[r].ncalls = 0

(***************************************************************************)
(* C3                                                                      *)
(***************************************************************************)
\* C3: a request whose method is not POST is answered 405 with one and the
\* same response whatever its body; only the method check runs: the body is
\* not decoded, no field is checked, the client is not called.
C3_MethodNotAllowed ==
    /\ \A r \in Requests :
          reqs[r].state \notin {"idle", "received"} /\ ~IsPost(r)
          => /\ Done(r)
             /\ reqs[r].resp.status = 405
             /\ reqs[r].resp.body = PlainBody("Invalid request method")
             /\ reqs[r].checks = <<"method">>
             /\ reqs[r].req = ZeroRequest
             /\ reqs[r].ncalls = 0
    /\ \A r, q \in Requests :
          Done(r) /\ Done(q) /\ ~IsPost(r) /\ ~IsPost(q)
          => reqs[r].resp = reqs[q].resp

C3_Witness ==
    \E r, q \in Requests :
        /\ Done(r) /\ Done(q) /\ ~IsPost(r) /\ ~IsPost(q)
        /\ reqs[r].body = HelloBody /\ reqs[q].body = <<Bad("hello")>>
        /\ reqs[r].resp.status = 405 /\ reqs[q].resp.status = 405

(***************************************************************************)
(* C4                                                                      *)
(***************************************************************************)
\* C4: every POST whose body is not valid JSON, or has a field of the wrong
\* type, is answered 400 in plain text and the client is never called.
C4_MalformedRejected ==
    \A r \in Requests :
        /\ reqs[r].state # "received" /\ IsPost(r) /\ ~HasShape(reqs[r].body)
           => /\ Done(r)
              /\ reqs[r].resp.status = 400
              /\ reqs[r].resp.contentType = PlainText
              /\ reqs[r].ncalls = 0

(***************************************************************************)
(* C5                                                                      *)
(***************************************************************************)
\* C5: a failed call is answered 500 with a fixed message that does not
\* depend on the error: two requests that differ in the error only get the
\* same response, and the error text is in the log and not in the response.
C5_GenericFailure ==
    /\ \A r \in Requests :
          Done(r) /\ reqs[r].result.err # NoErr
          => /\ reqs[r].resp.status = 500
             /\ reqs[r].resp.contentType = PlainText
             /\ reqs[r].resp.body = PlainBody("Failed to invoke Bedrock model")
             /\ ~Mentions(reqs[r].resp.body, reqs[r].result.err)
             /\ Line("Error invoking Bedrock model", reqs[r].result.err)
                   \in logLines
    /\ \A r, q \in Requests :
          /\ Done(r) /\ Done(q)
          /\ reqs[r].result.err # NoErr /\ reqs[q].result.err # NoErr
          => reqs[r].resp = reqs[q].resp

C5_Witness ==
    \E r, q \in Requests :
        /\ Done(r) /\ Done(q)
        /\ reqs[r].method = reqs[q].method /\ reqs[r].body = reqs[q].body
        /\ reqs[r].result.err = "AccessDeniedException"
        /\ reqs[q].result.err = "ThrottlingException"
        /\ reqs[r].resp.status = 500 /\ reqs[q].resp = reqs[r].resp

(***************************************************************************)
(* C6                                                                      *)
(***************************************************************************)
\* C6: no retries: a request calls the client at most once, exactly once
\* when it is a valid POST and never otherwise, and a call that failed is
\* answered 500 after that one call.
C6_NoRetry ==
    \A r \in Requests :
        LET q == reqs[r]
            d == Decode(q.body)
            valid == IsPost(r) /\ d.err = NoErr
                       /\ d.req.Prompt # "" /\ d.req.Model # ""
        IN  /\ q.ncalls <= 1
            /\ q.state = "validated" => q.ncalls = 1
            /\ Done(r) => q.ncalls = (IF valid THEN 1 ELSE 0)
            /\ Done(r) /\ q.result.err # NoErr
                  => q.ncalls = 1 /\ q.resp.status = 500

C6_Witness ==
    \E r, q \in Requests :
        /\ Done(r) /\ reqs[r].result.err # NoErr /\ reqs[r].ncalls = 1
        /\ reqs[r].resp.status = 500
        /\ Done(q) /\ reqs[q].resp.status = 400 /\ reqs[q].ncalls = 0

(***************************************************************************)
(* C7                                                                      *)
(***************************************************************************)
C7_OwnInputsOnly ==
    /\ \A r, q \in Requests :
          /\ Done(r) /\ Done(q)
          /\ reqs[r].method = reqs[q].method /\ reqs[r].body = reqs[q].body
          /\ reqs[r].result = reqs[q].result
          => reqs[r].resp = reqs[q].resp
    /\ \A r \in Requests : reqs[r].ncalls > 0 => reqs[r].client = svc

C7_NoInterference ==
    /\ \A r \in Requests :
          reqs'[r] # reqs[r]
          => /\ \A q \in Requests \ {r} : reqs'[q] = reqs[q]
             /\ process' = process
    /\ svc.built => svc' = svc

\* C7: under every interleaving the response of a request is a function of
\* its own method, its own body and the result of its own call; a step of
\* one handler changes neither another request nor the state of the process,
\* and the client is never changed once it is built.
C7_Isolation == []C7_OwnInputsOnly /\ [][C7_NoInterference]_vars

C7_Witness ==
    \E r, q \in Requests :
        /\ r # q
        /\ reqs[r].state = "validated" /\ reqs[r].req.Prompt = "Hello, Bedrock!"
        /\ Done(q) /\ reqs[q].req.Prompt = "Hi" /\ reqs[q].resp.status = 500

(***************************************************************************)
(* C8                                                                      *)
(***************************************************************************)
StartupOrder ==
    {<<"load", "getenv">>, <<"getenv", "session">>, <<"session", "new">>,
     <<"session", "exited">>, <<"new", "handlefunc">>,
     <<"handlefunc", "listen">>, <<"listen", "serving">>,
     <<"listen", "exited">>}

SessionFailed == Line("Failed to create AWS session", "error") \in logLines

C8_ClientBeforeRequests ==
    /\ svcBuilds <= 1
    /\ registered # {} => svc.built /\ svcBuilds = 1
    /\ \A r \in Requests :
          reqs[r].state # "idle"
          => svc.built /\ svcBuilds = 1 /\ registered # {} /\ pc = "serving"
    /\ \A r \in Requests : reqs[r].ncalls > 0 => reqs[r].client.built
    /\ SessionFailed
          => /\ pc = "exited" /\ registered = {} /\ ~svc.built
             /\ \A r \in Requests : reqs[r].state = "idle"
    /\ pc = "exited" => SessionFailed \/ Line("listen", "error") \in logLines

C8_Order ==
    /\ pc' # pc => <<pc, pc'>> \in StartupOrder
    /\ svc' # svc => pc = "new" /\ pc' = "handlefunc" /\ svcBuilds = 0
    /\ registered' # registered => pc = "handlefunc" /\ svc.built
    /\ pc = "load" /\ pc' # pc => pc' = "getenv"

\* C8: startup runs configuration, client, registration, serving in this
\* order; the client is built exactly once; a session that cannot be made
\* ends the process before the handler is registered, so no request is
\* handled without a client; a missing .env file does not end the process.
C8_Startup == []C8_ClientBeforeRequests /\ [][C8_Order]_vars

C8_Witness ==
    /\ ~dotenv.exists /\ Line("No .env file found", "") \in logLines
    /\ pc = "serving" /\ svcBuilds = 1
    /\ \E r \in Requests : Done(r) /\ reqs[r].ncalls = 1 /\ reqs[r].client = svc

(***************************************************************************)
(* C9                                                                      *)
(***************************************************************************)
\* C9: the port is "3000" when PORT is absent or empty and the value of PORT
\* otherwise; region, access key and secret key are used as read, empty or
\* not, by the session and the client.
C9_Configuration ==
    pc \notin {"load", "getenv"} =>
        /\ environ["PORT"] \in {Absent, ""} => port = "3000"
        /\ environ["PORT"] \notin {Absent, ""} => port = environ["PORT"]
        /\ awsRegion = (IF environ["AWS_REGION"] = Absent THEN ""
                        ELSE environ["AWS_REGION"])
        /\ awsAccessKey = (IF environ["AWS_ACCESS_KEY_ID"] = Absent THEN ""
                           ELSE environ["AWS_ACCESS_KEY_ID"])
        /\ awsSecretKey = (IF environ["AWS_SECRET_ACCESS_KEY"] = Absent THEN ""
                           ELSE environ["AWS_SECRET_ACCESS_KEY"])
        /\ sess.built =>
              /\ sess.region = awsRegion
              /\ sess.accessKey = awsAccessKey
              /\ sess.secretKey = awsSecretKey
        /\ svc.built => svc = sess
        /\ listenAddr # Unset => listenAddr = ":" \o port

C9_Witness ==
    /\ pc = "serving"
    /\ environ["PORT"] = "8080" /\ port = "8080" /\ listenAddr = ":8080"
    /\ svc.region = "us-east-1"

(***************************************************************************)
(* C10                                                                     *)
(***************************************************************************)
AllChecks == <<"method", "decode", "fields">>

C10_States ==
    \A r \in Requests :
        LET q == reqs[r]
            d == Decode(q.body)
        IN  /\ q.state \in {"idle", "received", "validated", "done"}
            /\ q.state \in {"idle", "received"} =>
                  q.resp = NoResp /\ q.checks = <<>> /\ q.ncalls = 0
            /\ q.state = "validated" =>
                  /\ q.checks = AllChecks /\ q.resp = NoResp
                  /\ IsPost(r) /\ d.err = NoErr
                  /\ d.req.Prompt # "" /\ d.req.Model # ""
            /\ Done(r) =>
                  /\ q.resp.status \in {200, 400, 405, 500}
                  /\ q.resp.status = 405 <=> q.checks = <<"method">>
                  /\ q.resp.status = 405 <=> ~IsPost(r)
                  /\ q.resp.status = 400 =>
                        q.checks \in {<<"method", "decode">>, AllChecks}
                  /\ q.checks = <<"method", "decode">> <=>
                        IsPost(r) /\ d.err # NoErr
                  /\ q.resp.status \in {200, 500} =>
                        q.checks = AllChecks /\ q.ncalls = 1

C10_Transitions ==
    \A r \in Requests :
        LET a == reqs[r].state
            b == reqs'[r].state
        IN  /\ a # b =>
                  <<a, b>> \in {<<"idle", "received">>,
                                <<"received", "validated">>,
                                <<"received", "done">>,
                                <<"validated", "done">>}
            /\ a = "received" /\ b = "done" =>
                  reqs'[r].resp.status \in {400, 405}
            /\ a = "validated" /\ b = "done" =>
                  reqs'[r].resp.status \in {200, 500}
            /\ a = "done" => reqs'[r] = reqs[r]

\* C10: a request goes received -> validated -> terminal, or received ->
\* terminal; it is validated only after the method check, the decoding and
\* the check of the fields, in this order; it ends with exactly one status
\* of 200, 400, 405, 500, which it never leaves; and, the call returning,
\* every request received reaches its terminal outcome.
C10_Lifecycle ==
    /\ []C10_States
    /\ [][C10_Transitions]_vars
    /\ \A r \in Requests : (reqs[r].state = "received") ~> Done(r)

C10_Witness ==
    \E r, q \in Requests :
        /\ Done(r) /\ reqs[r].resp.status = 200 /\ reqs[r].checks = AllChecks
        /\ Done(q) /\ reqs[q].resp.status = 405

=============================================================================
